---- MODULE Spec2Model ----
(***************************************************************************)
(* Model of graph_pearl/policies.py: Graph_TanhGaussianPolicy (a Gaussian  *)
(* policy head over a graph network, squashed by tanh) and the             *)
(* MakeDeterministic wrapper.                                              *)
(*                                                                         *)
(* Numbers are fixed-point integers with SCALE units per 1.0.  A tensor of *)
(* shape (batch, k) is a sequence of rows, each a sequence of k numbers.   *)
(* Python's None is the empty sequence; an optional record is wrapped in a *)
(* one-element sequence.                                                   *)
(***************************************************************************)
EXTENDS Integers, Sequences, FiniteSets, TLC

\* ------------------------------------------------------------------ bounds
ActionDim == 2
MaxBatch == 2
MaxNoise == 1
NumRngStates == 3

\* --------------------------------------------------------------- constants
LOG_SIG_MAX == 2
LOG_SIG_MIN == -20

None == <<>>
Dims == 1..ActionDim

\* ------------------------------------------------- elementwise tensor math
Abs(x) == IF x < 0 THEN -x ELSE x

\* the sequence that a function over 1..n is, evaluated
Strict(f) == SubSeq(f, 1, Len(f))

\* round(SCALE * tanh(i * 0.5)) for i = 0..9; tanh rounds to 1.0 from 4.5 on
TanhKnots == <<0, 462, 762, 905, 964, 987, 995, 998, 999, 1000>>

\* the fixed-point unit: the number that stands for 1.0
SCALE == TanhKnots[Len(TanhKnots)]
TanhStep == SCALE \div 2

\* torch.tanh on one number: odd, monotone, saturating; linear between knots
Tanh(x) ==
    LET a == Abs(x)
        k == a \div TanhStep
        v == IF k + 1 >= Len(TanhKnots)
             THEN TanhKnots[Len(TanhKnots)]
             ELSE TanhKnots[k + 1]
                  + ((TanhKnots[k + 2] - TanhKnots[k + 1]) * (a % TanhStep)) \div TanhStep
    IN  IF x < 0 THEN -v ELSE v

\* round(SCALE * e^k) for k = -7..6; below e^-7 the fixed point rounds to 0
ExpKnots == <<1, 2, 7, 18, 50, 135, 368, 1000, 2718, 7389, 20086, 54598, 148413, 403429>>

ExpAt(k) == IF k < -7 THEN 0 ELSE ExpKnots[k + 8]

\* torch.exp on one number: linear between the whole-number knots
Exp(x) ==
    LET k == x \div SCALE
        f == x % SCALE
    IN  IF f = 0 THEN ExpAt(k)
        ELSE ExpAt(k) + ((ExpAt(k + 1) - ExpAt(k)) * f) \div SCALE

\* torch.clamp on one number
Clamp(x, lo, hi) == IF x < lo THEN lo ELSE IF x > hi THEN hi ELSE x

\* torch.tanh, torch.exp and torch.clamp on a tensor: elementwise
torch_tanh(t) ==
    Strict([r \in 1..Len(t) |-> Strict([d \in 1..Len(t[r]) |-> Tanh(t[r][d])])])

torch_exp(t) ==
    Strict([r \in 1..Len(t) |-> Strict([d \in 1..Len(t[r]) |-> Exp(t[r][d])])])

torch_clamp(t, lo, hi) ==
    Strict([r \in 1..Len(t) |->
        Strict([d \in 1..Len(t[r]) |-> Clamp(t[r][d], lo, hi)])])

\* torch.tensor_split(t, 2, dim=-1): the first ceil(k/2) columns, then the rest
tensor_split(t) ==
    << Strict([r \in 1..Len(t) |-> SubSeq(t[r], 1, (Len(t[r]) + 1) \div 2)]),
       Strict([r \in 1..Len(t) |-> SubSeq(t[r], (Len(t[r]) + 1) \div 2 + 1, Len(t[r]))]) >>

\* ------------------------------------------------------------ the network
\* The features of one graph of a batch: its STATE_IN node and its LATENT_IN
\* node.  The latent features put the raw log_std below, inside and above
\* [LOG_SIG_MIN, LOG_SIG_MAX]; the state features put the mean on both sides
\* of 0 and, with the weights, outside [-1, 1].
FeatureRows ==
    { [state_in |-> -SCALE,       latent_in |-> -SCALE],
      [state_in |-> SCALE \div 2, latent_in |-> -SCALE],
      [state_in |-> SCALE \div 2, latent_in |-> (LOG_SIG_MIN - 1) * SCALE],
      [state_in |-> -SCALE,       latent_in |-> (LOG_SIG_MAX + 1) * SCALE] }

\* a batched HeteroData: one feature row per graph of the batch
Graphs == UNION {[1..b -> FeatureRows] : b \in 1..MaxBatch}

\* the parameters of self.module: one weight per output column
Weights == {1, 2}
Params == {[w_mean |-> [d \in Dims |-> a * d], w_log_std |-> [d \in Dims |-> a]] :
              a \in Weights}

\* self.module(graph): a deterministic function of the parameters and the
\* graph, of shape (batch, 2 * action_dim)
Module(p, g) ==
    Strict([r \in 1..Len(g) |->
        Strict([j \in 1..(2 * ActionDim) |->
            IF j <= ActionDim
            THEN p.w_mean[j] * g[r].state_in
            ELSE p.w_log_std[j - ActionDim] * g[r].latent_in])])

\* --------------------------------------------------- the random generator
RngStates == 0..(NumRngStates - 1)
NoiseVals == {n * SCALE : n \in (-MaxNoise)..MaxNoise}

\* the standard-normal draw that generator state s yields for element (r, d)
NoiseAt(s, r, d) ==
    (((s + (r - 1) * ActionDim + d) % (2 * MaxNoise + 1)) - MaxNoise) * SCALE

NormalNoise(s, rows) ==
    Strict([r \in 1..rows |-> Strict([d \in Dims |-> NoiseAt(s, r, d)])])

RngAdvance(s) == (s + 1) % NumRngStates

\* ------------------------------------------------------------- TanhNormal
TanhNormal(mean, std) == [normal_mean |-> mean, normal_std |-> std]

\* z = normal_mean + normal_std * eps
NormalDraw(dist, noise) ==
    Strict([r \in 1..Len(noise) |->
        Strict([d \in 1..Len(noise[r]) |->
            dist.normal_mean[r][d] + (dist.normal_std[r][d] * noise[r][d]) \div SCALE])])

\* sample(return_pretanh_value): tanh(z), and z when asked for
TanhNormal_sample(dist, noise, return_pretanh_value) ==
    LET z == NormalDraw(dist, noise)
    IN  [action |-> torch_tanh(z),
         pre_tanh_value |-> IF return_pretanh_value THEN z ELSE None]

\* rsample(return_pretanh_value): the same value, drawn as mean + std * eps
TanhNormal_rsample(dist, noise, return_pretanh_value) ==
    LET z == NormalDraw(dist, noise)
    IN  [action |-> torch_tanh(z),
         pre_tanh_value |-> IF return_pretanh_value THEN z ELSE None]

\* log_prob(value, pre_tanh_value): per element, the log density of value
\* under the distribution, kept as the application it is
TanhNormal_log_prob(dist, value, pre_tanh_value) ==
    Strict([r \in 1..Len(value) |->
        Strict([d \in 1..Len(value[r]) |->
            [normal_mean |-> dist.normal_mean[r][d],
             normal_std |-> dist.normal_std[r][d],
             value |-> value[r][d],
             pre_tanh_value |-> pre_tanh_value[r][d]]])])

\* t.sum(dim=-1, keepdim=True): one column holding the row's summands
SumLastDim(t) == Strict([r \in 1..Len(t) |-> << [sum |-> t[r]] >>])

\* np_ify: the tensor's data as a numpy array
np_ify(t) == [ndarray |-> t]

\* a[0, :]
FirstRow(a) == [ndarray |-> a.ndarray[1]]

\* ---------------------------------------- Graph_TanhGaussianPolicy.forward
\* log_std = torch.clamp(log_std, LOG_SIG_MIN, LOG_SIG_MAX)
ClampLogStd(raw_log_std) ==
    torch_clamp(raw_log_std, LOG_SIG_MIN * SCALE, LOG_SIG_MAX * SCALE)

\* variant: the standard deviation taken from the raw network output
ForwardStd_Unclamped(raw_log_std, log_std) == torch_exp(raw_log_std)

\* std = torch.exp(log_std), log_std being the rebound (clamped) name
ForwardStd(raw_log_std, log_std) == torch_exp(log_std)

\* variant: asking for the log probability overrides deterministic
IsDeterministic_UnlessLogProb(reparameterize, deterministic, return_log_prob) ==
    deterministic /\ ~return_log_prob

\* if deterministic:
IsDeterministic(reparameterize, deterministic, return_log_prob) == deterministic

\* variant: the mean returned without squashing
DeterministicAction_NoSquash(mean) == mean

\* action = torch.tanh(mean)
DeterministicAction(mean) == torch_tanh(mean)

\* variant: reparameterize also asks for the log probability
WantsLogProb_OrReparameterize(reparameterize, return_log_prob) ==
    return_log_prob \/ reparameterize

\* if return_log_prob:
WantsLogProb(reparameterize, return_log_prob) == return_log_prob

\* variant: the log probability of the mean action instead of the drawn one
ForwardLogProb_AtMean(dist, action, pre_tanh_value) ==
    SumLastDim(TanhNormal_log_prob(dist, torch_tanh(dist.normal_mean),
                                   dist.normal_mean))

\* log_prob = tanh_normal.log_prob(action, pre_tanh_value=pre_tanh_value)
\* log_prob = log_prob.sum(dim=-1, keepdim=True)
ForwardLogProb(dist, action, pre_tanh_value) ==
    SumLastDim(TanhNormal_log_prob(dist, action, pre_tanh_value))

\* One execution of forward with the generator in state s.  The record holds
\* the arguments, the eight returned values, and what the call did: the
\* distribution it built (tanh_normal), which draw it made (sample_call) and
\* the generator state before and after.
forward(p, g, s, reparameterize, deterministic, return_log_prob) ==
    LET parts == tensor_split(Module(p, g))
        mean == parts[1]
        raw_log_std == parts[2]
        log_std == ClampLogStd(raw_log_std)
        std == ForwardStd(raw_log_std, log_std)
        Result(action, log_prob, pre_tanh_value, tanh_normal, sample_call, rng_after) ==
            [reparameterize |-> reparameterize,
             deterministic |-> deterministic,
             return_log_prob |-> return_log_prob,
             action |-> action, mean |-> mean, log_std |-> log_std,
             log_prob |-> log_prob, expected_log_prob |-> None, std |-> std,
             mean_action_log_prob |-> None, pre_tanh_value |-> pre_tanh_value,
             tanh_normal |-> tanh_normal, sample_call |-> sample_call,
             rng_before |-> s, rng_after |-> rng_after]
    IN  IF IsDeterministic(reparameterize, deterministic, return_log_prob)
        THEN Result(DeterministicAction(mean), None, None, None, "none", s)
        ELSE
            LET tanh_normal == TanhNormal(mean, std)
                noise == NormalNoise(s, Len(mean))
            IN  IF WantsLogProb(reparameterize, return_log_prob)
                THEN
                    LET drawn == IF reparameterize
                                 THEN TanhNormal_rsample(tanh_normal, noise, TRUE)
                                 ELSE TanhNormal_sample(tanh_normal, noise, TRUE)
                    IN  Result(drawn.action,
                               ForwardLogProb(tanh_normal, drawn.action,
                                              drawn.pre_tanh_value),
                               drawn.pre_tanh_value,
                               <<tanh_normal>>,
                               IF reparameterize THEN "rsample" ELSE "sample",
                               RngAdvance(s))
                ELSE
                    LET drawn == IF reparameterize
                                 THEN TanhNormal_rsample(tanh_normal, noise, FALSE)
                                 ELSE TanhNormal_sample(tanh_normal, noise, FALSE)
                    IN  Result(drawn.action, None, None, <<tanh_normal>>,
                               IF reparameterize THEN "rsample" ELSE "sample",
                               RngAdvance(s))

\* the tuple forward returns
ForwardReturn(f) ==
    <<f.action, f.mean, f.log_std, f.log_prob, f.expected_log_prob, f.std,
      f.mean_action_log_prob, f.pre_tanh_value>>

\* a call of forward: what it did and what it returned
forward_call(p, g, s, reparameterize, deterministic, return_log_prob) ==
    LET f == forward(p, g, s, reparameterize, deterministic, return_log_prob)
    IN  [fwd |-> f, out |-> ForwardReturn(f)]

\* ------------------------------------- get_actions, get_action, the wrapper
\* outputs = self.forward(graph, deterministic=deterministic)[0]; np_ify(outputs)
get_actions(p, g, s, deterministic) ==
    LET f == forward(p, g, s, FALSE, deterministic, FALSE)
    IN  [fwd |-> f, out |-> np_ify(ForwardReturn(f)[1])]

\* actions = self.get_actions(graph, deterministic); return actions[0, :], {}
get_action(p, g, s, deterministic) ==
    LET a == get_actions(p, g, s, deterministic)
    IN  [fwd |-> a.fwd, out |-> <<FirstRow(a.out), {}>>]

\* self.stochastic_policy.get_action(observation, deterministic=True)
MakeDeterministic_get_action(p, g, s) == get_action(p, g, s, TRUE)

\* variant: the wrapper forgets the deterministic flag
MakeDeterministic_get_actions_Default(p, g, s) == get_actions(p, g, s, FALSE)

\* self.stochastic_policy.get_actions(observations, deterministic=True)
MakeDeterministic_get_actions(p, g, s) == get_actions(p, g, s, TRUE)

\* ------------------------------------------------------------------ state
VARIABLES
    params,     \* the parameters of policy.module, set at construction
    graph,      \* the observation the policy is called on
    rng,        \* the state of the random generator
    call,       \* the last call made: its operation and its deterministic flag
    last,       \* the last call's execution of forward (fwd) and its return value (out)
    md_seen     \* per wrapper method, the values it has returned so far

vars == <<params, graph, rng, call, last, md_seen>>

Init ==
    /\ params \in Params
    /\ graph \in Graphs
    /\ rng \in RngStates
    /\ call = [op |-> "init", deterministic |-> FALSE]
    /\ last = None
    /\ md_seen = [get_action |-> {}, get_actions |-> {}]

Forward ==
    \E reparameterize, deterministic, return_log_prob \in BOOLEAN :
        /\ call' = [op |-> "forward", deterministic |-> deterministic]
        /\ last' = forward_call(params, graph, rng, reparameterize, deterministic,
                                return_log_prob)
        /\ rng' = last'.fwd.rng_after
        /\ UNCHANGED <<params, graph, md_seen>>

GetActions ==
    \E deterministic \in BOOLEAN :
        /\ call' = [op |-> "get_actions", deterministic |-> deterministic]
        /\ last' = get_actions(params, graph, rng, deterministic)
        /\ rng' = last'.fwd.rng_after
        /\ UNCHANGED <<params, graph, md_seen>>

GetAction ==
    \E deterministic \in BOOLEAN :
        /\ call' = [op |-> "get_action", deterministic |-> deterministic]
        /\ last' = get_action(params, graph, rng, deterministic)
        /\ rng' = last'.fwd.rng_after
        /\ UNCHANGED <<params, graph, md_seen>>

MDGetAction ==
    /\ last' = MakeDeterministic_get_action(params, graph, rng)
    /\ call' = [op |-> "md_get_action", deterministic |-> last'.fwd.deterministic]
    /\ rng' = last'.fwd.rng_after
    /\ md_seen' = [md_seen EXCEPT !.get_action = @ \cup {last'.out}]
    /\ UNCHANGED <<params, graph>>

MDGetActions ==
    /\ last' = MakeDeterministic_get_actions(params, graph, rng)
    /\ call' = [op |-> "md_get_actions", deterministic |-> last'.fwd.deterministic]
    /\ rng' = last'.fwd.rng_after
    /\ md_seen' = [md_seen EXCEPT !.get_actions = @ \cup {last'.out}]
    /\ UNCHANGED <<params, graph>>

Next ==
    \/ Forward
    \/ GetActions
    \/ GetAction
    \/ MDGetAction
    \/ MDGetActions

Spec == Init /\ [][Next]_vars

Called == call.op # "init"

\* ----------------------------------------------------------------- claims
\* all elements of a tensor
Elems(t) == {t[r][d] : r \in 1..Len(t), d \in 1..ActionDim}

\* the mean and raw log_std halves of the network's output on the graph
NetMean == tensor_split(Module(params, graph))[1]
NetRawLogStd == tensor_split(Module(params, graph))[2]

\* the value that the last execution of forward squashed into its action
PreSquash ==
    IF last.fwd.sample_call = "none"
    THEN last.fwd.mean
    ELSE NormalDraw(last.fwd.tanh_normal[1],
                    NormalNoise(last.fwd.rng_before, Len(last.fwd.mean)))

\* C1: whatever reparameterize and return_log_prob are, an execution of
\* forward with deterministic=True returns action = tanh(mean) for the mean it
\* returns, builds no distribution, makes no draw and leaves the random
\* generator where it was.
C1_DeterministicIsTanhOfMean ==
    (Called /\ last.fwd.deterministic) =>
        /\ last.fwd.action = torch_tanh(last.fwd.mean)
        /\ last.fwd.sample_call = "none"
        /\ last.fwd.tanh_normal = None
        /\ last.fwd.rng_after = last.fwd.rng_before
        /\ rng = last.fwd.rng_before

C1_Witness ==
    /\ call.op = "forward"
    /\ last.fwd.deterministic
    /\ last.fwd.return_log_prob
    /\ last.fwd.reparameterize
    /\ \E m \in Elems(last.fwd.mean) : Abs(m) > SCALE
    /\ last.out[1] = torch_tanh(last.out[2])

\* C2: whatever deterministic and reparameterize are, an execution of forward
\* with return_log_prob=False returns log_prob = None.
C2_NoLogProbUnlessAsked ==
    (Called /\ ~last.fwd.return_log_prob) =>
        /\ last.fwd.log_prob = None
        /\ (call.op = "forward" => last.out[4] = None)

C2_Witness ==
    /\ call.op = "forward"
    /\ ~last.fwd.return_log_prob
    /\ ~last.fwd.deterministic
    /\ last.fwd.reparameterize
    /\ last.fwd.sample_call = "rsample"
    /\ last.out[4] = None

\* the log probability, summed over the action's components, of the action
\* that the last execution of forward returned, under the Gaussian of the
\* mean and std it returned
LogProbOfReturnedAction ==
    SumLastDim(TanhNormal_log_prob(TanhNormal(last.fwd.mean, last.fwd.std),
                                   last.fwd.action, last.fwd.pre_tanh_value))

C4_WrapperIsDeterministic ==
    /\ call.op \in {"md_get_action", "md_get_actions"} =>
           /\ call.deterministic
           /\ last.fwd.deterministic
           /\ last.fwd.sample_call = "none"
           /\ rng = last.fwd.rng_before
    /\ Cardinality(md_seen.get_actions) <= 1
    /\ Cardinality(md_seen.get_action) <= 1
    /\ md_seen.get_actions \subseteq {np_ify(torch_tanh(NetMean))}
    /\ md_seen.get_action \subseteq {<<[ndarray |-> torch_tanh(NetMean)[1]], {}>>}

C4_Witness ==
    /\ call.op = "md_get_action"
    /\ md_seen.get_actions # {}
    /\ md_seen.get_action = {last.out}
    /\ Len(graph) > 1
    /\ \E m \in Elems(NetMean) : Abs(m) > SCALE

\* C5: in every mode the action that forward returns is the tanh of a
\* pre-squash value (the mean when deterministic, the Gaussian draw
\* otherwise), and every component of it lies in [-1, 1].
C5_ActionIsSquashed ==
    Called =>
        /\ last.fwd.action = torch_tanh(PreSquash)
        /\ \A a \in Elems(last.fwd.action) : -SCALE <= a /\ a <= SCALE

C5_Witness ==
    /\ Called
    /\ last.fwd.sample_call = "sample"
    /\ last.fwd.return_log_prob
    /\ \E z \in Elems(last.fwd.pre_tanh_value) : z > SCALE
    /\ \E z \in Elems(last.fwd.pre_tanh_value) : z < -SCALE
    /\ \A a \in Elems(last.fwd.action) : Abs(a) <= SCALE

\* C6: in every execution of forward that is not deterministic, the returned
\* mean and log_std are those of the Gaussian that is drawn from: the returned
\* log_std is the clamped network output, the distribution is built from the
\* returned mean and from std = exp(returned log_std), and the action is the
\* tanh of a draw from it.
C6_ReturnedMomentsAreTheGaussians ==
    (Called /\ ~last.fwd.deterministic) =>
        /\ last.fwd.mean = NetMean
        /\ last.fwd.log_std = torch_clamp(NetRawLogStd, LOG_SIG_MIN * SCALE, LOG_SIG_MAX * SCALE)
        /\ last.fwd.tanh_normal
               = <<TanhNormal(last.fwd.mean, torch_exp(last.fwd.log_std))>>
        /\ last.fwd.std = last.fwd.tanh_normal[1].normal_std
        /\ last.fwd.action
               = torch_tanh(NormalDraw(TanhNormal(last.fwd.mean,
                                                  torch_exp(last.fwd.log_std)),
                                       NormalNoise(last.fwd.rng_before,
                                                   Len(last.fwd.mean))))

C6_Witness ==
    /\ Called
    /\ ~last.fwd.deterministic
    /\ \E x \in Elems(NetRawLogStd) : x > LOG_SIG_MAX * SCALE
    /\ \E x \in Elems(NetRawLogStd) : x < LOG_SIG_MIN * SCALE
    /\ \A x \in Elems(last.fwd.log_std) :
           LOG_SIG_MIN * SCALE <= x /\ x <= LOG_SIG_MAX * SCALE
    /\ \E r \in 1..Len(last.fwd.mean) : \E d \in Dims :
           last.fwd.action[r][d] # Tanh(last.fwd.mean[r][d])

====
